---- MODULE Spec2Model ----
(***************************************************************************)
(* Model of the portfolio site: the service worker (src/sw.js) with its    *)
(* lifecycle, fetch dispatcher, two retrieval strategies and the replay    *)
(* of deferred submissions; the backend retry helper fetchWithBackoff and  *)
(* the backend's failure responses (src/unnamed/part_002, part_001); the   *)
(* page's loadPortfolioData (src/unnamed/part_001); and                    *)
(* PortfolioAPI.fetchWithRetry (src/js/modules/portfolio-api.js).          *)
(***************************************************************************)
EXTENDS Integers, Sequences, FiniteSets, TLC

(* ---------------------------------------------------------------------- *)
(* Bounds                                                                  *)
(* ---------------------------------------------------------------------- *)
\* number of fetch events handled in one behaviour
MaxCalls == 2

Calls == 1..MaxCalls

(* ---------------------------------------------------------------------- *)
(* Constants of src/sw.js                                                  *)
(* ---------------------------------------------------------------------- *)
CACHE_VERSION == "portfolio-v3.0.0"
RUNTIME_CACHE == "runtime-v3.0.0"
IMAGE_CACHE == "images-v3.0.0"

STATIC_ASSETS ==
    << "/", "/index.html", "/style.css", "/script.js", "/manifest.json",
       "/offline.html", "/js/modules/animations-gsap.js",
       "/js/modules/skill-chart.js", "/js/modules/portfolio-api.js",
       "/js/modules/portfolio-ui.js", "/js/modules/portfolio-forms.js",
       "/js/modules/error-handler.js" >>

currentCaches == {CACHE_VERSION, RUNTIME_CACHE, IMAGE_CACHE}

\* location.origin of the worker
SelfOrigin == "https://sugam.dev"

\* stores left behind by a previous deployment
OldCaches == {"portfolio-v2.0.0", "runtime-v2.0.0"}

\* every store name caches.keys() can return
CacheNames == OldCaches \cup currentCaches

(* ---------------------------------------------------------------------- *)
(* Strings and URLs                                                        *)
(* ---------------------------------------------------------------------- *)
\* String.prototype.includes
Includes(s, sub) ==
    \E i \in 1..(Len(s) - Len(sub) + 1) : SubSeq(s, i, i + Len(sub) - 1) = sub

\* String.prototype.startsWith
StartsWith(s, pre) ==
    Len(s) >= Len(pre) /\ SubSeq(s, 1, Len(pre)) = pre

\* index of the "://" that ends the scheme of an absolute URL
SchemeEnd(url) ==
    CHOOSE i \in 1..(Len(url) - 2) :
        /\ SubSeq(url, i, i + 2) = "://"
        /\ \A j \in 1..(i - 1) : SubSeq(url, j, j + 2) # "://"

\* index of the first character after the authority (Len + 1 when none)
AuthorityEnd(url) ==
    LET from == SchemeEnd(url) + 3
        stops == { k \in from..Len(url) : SubSeq(url, k, k) \in {"/", "?", "#"} }
    IN IF stops = {} THEN Len(url) + 1
       ELSE CHOOSE k \in stops : \A m \in stops : k <= m

\* new URL(u).origin
OriginOf(url) == SubSeq(url, 1, AuthorityEnd(url) - 1)

\* new URL(u).pathname
PathOf(url) ==
    LET from == AuthorityEnd(url)
        stops == { k \in from..Len(url) : SubSeq(url, k, k) \in {"?", "#"} }
        to == IF stops = {} THEN Len(url)
              ELSE (CHOOSE k \in stops : \A m \in stops : k <= m) - 1
    IN IF to < from THEN "/" ELSE SubSeq(url, from, to)

\* the request URL a relative reference resolves to in the worker's scope
Resolve(ref) == SelfOrigin \o ref

\* the URLs install asks cache.addAll to store
ManifestURLs == { Resolve(STATIC_ASSETS[i]) : i \in 1..Len(STATIC_ASSETS) }

(* ---------------------------------------------------------------------- *)
(* Requests and responses                                                  *)
(* ---------------------------------------------------------------------- *)
Req(u, d) == [url |-> u, destination |-> d, method |-> "GET"]

\* the contact form's POST /api/send, as the fetch listener sees it
SendRequest == [Req(Resolve("/api/send"), "") EXCEPT !.method = "POST"]

\* the fetch events the model draws from
Requests ==
    { SendRequest,
      Req("https://sugam.dev/index.html", "document"),
      Req("https://sugam.dev/about", "document"),
      Req("https://sugam.dev/api/portfolio", ""),
      Req("https://sugam.dev/api/docs", "document"),
      Req("https://sugam.dev/img/me.png", "image"),
      Req("https://sugam.dev/img/api/logo.png", "image"),
      Req("https://cdn.example.com/lib.js", "script") }

NoReq == Req("", "")

Resp(s, b) == [status |-> s, body |-> b]

\* absence of a response (undefined)
None == Resp(0, "")

\* what the network answers to a fetch: a response, or a thrown error
NetError == [kind |-> "error", resp |-> None]
NetResp(s, b) == [kind |-> "resp", resp |-> Resp(s, b)]
NoNet == [kind |-> "none", resp |-> None]
NetOutcomes ==
    { NetError, NetResp(200, "fresh"), NetResp(204, ""), NetResp(404, "not found") }

\* the content the network serves for the assets at install time
InstalledResp == Resp(200, "installed")

\* the placeholder cacheFirstStrategy synthesizes
CFUnavailable == Resp(503, "Offline - Content not available")

\* the placeholder networkFirstStrategy synthesizes
NFUnavailable == Resp(503, "Offline - No cached version available")

(* ---------------------------------------------------------------------- *)
(* The host's CacheStorage                                                 *)
(* ---------------------------------------------------------------------- *)
EmptyStore == [u \in {} |-> None]

\* caches.open(name): creates the store when it does not exist
CacheOpen(cs, name) ==
    IF name \in DOMAIN cs THEN cs ELSE (name :> EmptyStore) @@ cs

\* cache.match(url) on the store called name
CacheMatch(cs, name, url) ==
    IF name \in DOMAIN cs /\ url \in DOMAIN cs[name] THEN cs[name][url] ELSE None

\* cache.match(request): a request of another method than GET matches
\* nothing
MatchRequest(cs, name, req) ==
    IF req.method = "GET" THEN CacheMatch(cs, name, req.url) ELSE None

\* cache.put(url, resp): overwrites the entry of that key
CachePut(cs, name, url, resp) ==
    IF name \in DOMAIN cs
    THEN [cs EXCEPT ![name] = (url :> resp) @@ @]
    ELSE cs

\* cache.addAll(urls): stores every URL's response, all or nothing
CacheAddAll(cs, name, urls, resp) ==
    [cs EXCEPT ![name] = [u \in urls |-> resp] @@ @]

\* caches.delete(name)
CacheDelete(cs, name) == [n \in (DOMAIN cs) \ {name} |-> cs[n]]

(* ---------------------------------------------------------------------- *)
(* State                                                                   *)
(* ---------------------------------------------------------------------- *)
VARIABLES
    swState,          \* lifecycle state of this worker version
    skipWaitingFlag,  \* self.skipWaiting() was called
    installFailed,    \* cache.addAll rejected during install
    prevControls,     \* a previous version still controls open clients
    claimed,          \* self.clients.claim() was called
    toDelete,         \* stale stores whose caches.delete is still running
    deleted,          \* stores deleted by the activate step
    installs,         \* successful runs of install on the primary store
    installOpened,    \* caches.open of the install handler has settled
    pending,          \* the host promise a lifecycle handler waits for:
                      \* "skipWaiting", "keys", "claim", or "" when none
    caches,           \* CacheStorage: store name -> (request URL -> response)
    calls,            \* one record per fetch event
    puts,             \* cache.put calls issued and not yet written
    writeLog          \* the puts written so far, in order

swVars == << swState, skipWaitingFlag, installFailed, prevControls, claimed,
             toDelete, deleted, installs, installOpened, pending, caches, calls, puts, writeLog >>

\* one fetchWithBackoff call and the upstream it talks to
VARIABLES
    fbUpstream,       \* what the upstream does to the 1st, 2nd, ... attempt
    fbRetries,        \* the retries argument
    fbInitialDelay,   \* the delay argument
    fbPc,             \* position in fetchWithBackoff
    fbI,              \* the loop variable i
    fbDelay,          \* the local delay
    fbAttempts,       \* fetch calls made so far
    fbWaits,          \* the delays waited so far, in order
    fbResult          \* what the call returned or threw

fbVars == << fbUpstream, fbRetries, fbInitialDelay, fbPc, fbI, fbDelay,
             fbAttempts, fbWaits, fbResult >>

\* the deferred-submission store and the sync runs that replay it
VARIABLES
    syStore,          \* object store 'submissions': id -> record
    syRuns,           \* one record per sync event
    syPosts           \* the replay POSTs sent so far, in order

syVars == << syStore, syRuns, syPosts >>

\* the page: Portfolio.portfolioData and the runs of loadPortfolioData
VARIABLES
    pfData,           \* this.portfolioData
    pfOnline,         \* the connection, as the page's events report it
    pfLoads           \* one record per loadPortfolioData run

pfVars == << pfData, pfOnline, pfLoads >>

\* one PortfolioAPI.fetchWithRetry call and the server it talks to
VARIABLES
    frServer,         \* what the server does to the 1st, 2nd, ... attempt
    frArg,            \* the retries argument of the outermost call
    frPc,             \* position in fetchWithRetry
    frRetries,        \* the retries parameter of the innermost call
    frAttempts,       \* fetch calls made so far
    frWaits,          \* the delays waited so far, in order
    frLog,            \* the n of every 'Retrying... (n/3)' line, in order
    frResult          \* what the call resolved or rejected with

frVars == << frServer, frArg, frPc, frRetries, frAttempts, frWaits, frLog,
             frResult >>

\* one failing backend request and the response sent for it
VARIABLES
    erEnv,            \* process.env.NODE_ENV
    erError,          \* the error caught
    erHandler,        \* the handler that caught it
    erResponse        \* the response sent

erVars == << erEnv, erError, erHandler, erResponse >>

vars == << swVars, fbVars, syVars, pfVars, frVars, erVars >>

\* what an action of one part leaves alone of the other parts
notSW == << fbVars, syVars, pfVars, frVars, erVars >>
notFB == << swVars, syVars, pfVars, frVars, erVars >>
notSY == << swVars, fbVars, pfVars, frVars, erVars >>
notPF == << swVars, fbVars, syVars, frVars, erVars >>
notFR == << swVars, fbVars, syVars, pfVars, erVars >>
notER == << swVars, fbVars, syVars, pfVars, frVars >>

IdleCall ==
    [ pc |-> "idle", req |-> NoReq, strategy |-> "none", cacheName |-> "",
      responded |-> 0, storeOps |-> 0, cached |-> None, net |-> NoNet,
      result |-> None, source |-> "none", put |-> "none",
      bg |-> "none", bgResp |-> None, matchAt |-> 0, wrote |-> 0 ]

SWInit ==
    /\ swState = "installing"
    /\ skipWaitingFlag = FALSE
    /\ installFailed = FALSE
    /\ prevControls \in BOOLEAN
    /\ claimed = FALSE
    /\ toDelete = {}
    /\ deleted = {}
    /\ installs = 0
    /\ installOpened = FALSE
    /\ pending = ""
    /\ \E olds \in SUBSET OldCaches :
          caches = [n \in olds |-> ("https://sugam.dev/" :> Resp(200, "old"))]
    /\ calls = [c \in Calls |-> IdleCall]
    /\ puts = {}
    /\ writeLog = << >>

(* ---------------------------------------------------------------------- *)
(* Lifecycle: install (sw.js 26-40) and activate (sw.js 43-61)             *)
(* ---------------------------------------------------------------------- *)
\* the state the host moves an installing worker to once the promise given
\* to event.waitUntil settles
AfterInstall(rejected) == IF rejected THEN "redundant" ELSE "installed"

\* caches.open(CACHE_VERSION) of the install handler settles: the store
\* exists from here on, cache.addAll is started
InstallOpen ==
    /\ swState = "installing"
    /\ ~installOpened
    /\ installOpened' = TRUE
    /\ caches' = CacheOpen(caches, CACHE_VERSION)
    /\ UNCHANGED << pending, swState, skipWaitingFlag, installFailed, prevControls,
                    claimed, toDelete, deleted, installs, calls, puts,
                    writeLog, notSW >>

\* mutant: the assets are added to the runtime store instead of the primary
InstallOkWrongStore ==
    /\ swState = "installing"
    /\ installOpened
    /\ pending = ""
    /\ caches' = CacheAddAll(CacheOpen(caches, RUNTIME_CACHE), RUNTIME_CACHE,
                             ManifestURLs, InstalledResp)
    /\ skipWaitingFlag' = TRUE
    /\ installs' = installs + 1
    /\ pending' = "skipWaiting"
    /\ UNCHANGED << swState, installFailed, prevControls, claimed, toDelete,
                    deleted, installOpened, calls, puts, writeLog, notSW >>

\* cache.addAll resolves, every asset fetched and stored; the next link
\* calls self.skipWaiting() and the chain waits for the promise it returns
InstallOk ==
    /\ swState = "installing"
    /\ installOpened
    /\ pending = ""
    /\ caches' = CacheAddAll(caches, CACHE_VERSION, ManifestURLs, InstalledResp)
    /\ skipWaitingFlag' = TRUE
    /\ installs' = installs + 1
    /\ pending' = "skipWaiting"
    /\ UNCHANGED << swState, installFailed, prevControls, claimed, toDelete,
                    deleted, installOpened, calls, puts, writeLog, notSW >>

\* the skipWaiting() promise settles: the chain and the promise given to
\* waitUntil are fulfilled
InstallSettled ==
    /\ swState = "installing"
    /\ pending = "skipWaiting"
    /\ pending' = ""
    /\ swState' = AfterInstall(FALSE)
    /\ UNCHANGED << skipWaitingFlag, installFailed, prevControls, claimed,
                    toDelete, deleted, installs, installOpened, caches, calls,
                    puts, writeLog, notSW >>

\* cache.addAll rejects, the fetch of asset a failed: nothing is stored,
\* skipWaiting is skipped, the .catch logs the error and returns normally,
\* so the promise given to waitUntil is fulfilled
InstallFail(a) ==
    /\ swState = "installing"
    /\ installOpened
    /\ pending = ""
    /\ a \in 1..Len(STATIC_ASSETS)
    /\ installFailed' = TRUE
    /\ swState' = AfterInstall(FALSE)
    /\ UNCHANGED << skipWaitingFlag, prevControls, claimed, toDelete, deleted,
                    installs, installOpened, pending, caches, calls, puts, writeLog,
                    notSW >>

\* the clients of the previous version go away (tabs closed or reloaded)
PrevClientsClose ==
    /\ prevControls
    /\ swState \in {"installing", "installed"}
    /\ prevControls' = FALSE
    /\ UNCHANGED << swState, skipWaitingFlag, installFailed, claimed, toDelete,
                    deleted, installs, installOpened, pending, caches, calls, puts, writeLog, notSW >>

\* mutant: the older idiom cacheName !== CACHE_VERSION
StaleCachesNotPrimary(cacheNames) ==
    { n \in cacheNames : n # CACHE_VERSION }

\* the names the activate handler deletes:
\* cacheNames.map(n => !currentCaches.includes(n) && caches.delete(n))
StaleCaches(cacheNames) ==
    { n \in cacheNames : n \notin currentCaches }

\* the activate event: an installed worker is activated once it called
\* skipWaiting or no previous version controls a client; the handler calls
\* caches.keys() and returns
Activate ==
    /\ swState = "installed"
    /\ skipWaitingFlag \/ ~prevControls
    /\ swState' = "activating"
    /\ pending' = "keys"
    /\ UNCHANGED << skipWaitingFlag, installFailed, prevControls, claimed,
                    toDelete, deleted, installs, installOpened, caches, calls,
                    puts, writeLog, notSW >>

\* caches.keys() settles: the .then starts caches.delete for every name
\* not recognized
ActivateKeys ==
    /\ swState = "activating"
    /\ pending = "keys"
    /\ pending' = ""
    /\ toDelete' = StaleCaches(DOMAIN caches)
    /\ UNCHANGED << swState, skipWaitingFlag, installFailed, prevControls,
                    claimed, deleted, installs, installOpened, caches, calls,
                    puts, writeLog, notSW >>

\* one caches.delete(cacheName) of the activate step finishes
DeleteCache(n) ==
    /\ swState = "activating"
    /\ n \in toDelete
    /\ caches' = CacheDelete(caches, n)
    /\ toDelete' = toDelete \ {n}
    /\ deleted' = deleted \cup {n}
    /\ UNCHANGED << swState, skipWaitingFlag, installFailed, prevControls,
                    claimed, installs, installOpened, pending, calls, puts, writeLog, notSW >>

\* mutant: clients.claim() not chained after Promise.all of the deletions
ClaimClientsEarly ==
    /\ swState = "activating"
    /\ pending = ""
    /\ ~claimed
    /\ claimed' = TRUE
    /\ prevControls' = FALSE
    /\ pending' = "claim"
    /\ UNCHANGED << swState, skipWaitingFlag, installFailed, toDelete, deleted,
                    installs, installOpened, caches, calls, puts, writeLog,
                    notSW >>

\* Promise.all of the deletions resolved: the next link calls
\* self.clients.claim() and the chain waits for the promise it returns;
\* the worker is still activating
ClaimClients ==
    /\ swState = "activating"
    /\ pending = ""
    /\ ~claimed
    /\ toDelete = {}
    /\ claimed' = TRUE
    /\ prevControls' = FALSE
    /\ pending' = "claim"
    /\ UNCHANGED << swState, skipWaitingFlag, installFailed, toDelete, deleted,
                    installs, installOpened, caches, calls, puts, writeLog,
                    notSW >>

\* the clients.claim() promise settles: the promise given to waitUntil is
\* fulfilled and the host sets the worker activated
ActivateSettled ==
    /\ swState = "activating"
    /\ pending = "claim"
    /\ pending' = ""
    /\ swState' = "activated"
    /\ UNCHANGED << skipWaitingFlag, installFailed, prevControls, claimed,
                    toDelete, deleted, installs, installOpened, caches, calls,
                    puts, writeLog, notSW >>

(* ---------------------------------------------------------------------- *)
(* The fetch listener (sw.js 64-93)                                        *)
(* ---------------------------------------------------------------------- *)
Route(s, n) == [strategy |-> s, cacheName |-> n]

\* STATIC_ASSETS.some(asset => request.url.includes(asset))
MatchesStaticAsset(url) ==
    \E i \in 1..Len(STATIC_ASSETS) : Includes(url, STATIC_ASSETS[i])

\* mutant: the listener without its cross-origin early return
DispatchNoOriginCheck(r) ==
    IF Includes(r.url, "/api/") THEN Route("networkFirst", RUNTIME_CACHE)
    ELSE IF r.destination = "image" THEN Route("cacheFirst", IMAGE_CACHE)
    ELSE IF MatchesStaticAsset(r.url) THEN Route("cacheFirst", CACHE_VERSION)
    ELSE Route("networkFirst", RUNTIME_CACHE)

\* the strategy the listener hands to respondWith, "none" when it returns
\* without responding
Dispatch(r) ==
    IF OriginOf(r.url) # SelfOrigin THEN Route("none", "")
    ELSE IF Includes(r.url, "/api/") THEN Route("networkFirst", RUNTIME_CACHE)
    ELSE IF r.destination = "image" THEN Route("cacheFirst", IMAGE_CACHE)
    ELSE IF MatchesStaticAsset(r.url) THEN Route("cacheFirst", CACHE_VERSION)
    ELSE Route("networkFirst", RUNTIME_CACHE)

\* a fetch event for request r reaches the active worker
FetchEvent(c, r) ==
    /\ swState = "activated"
    /\ calls[c].pc = "idle"
    /\ \A d \in Calls : d < c => calls[d].pc # "idle"
    /\ LET route == Dispatch(r)
       IN calls' = [calls EXCEPT ![c] =
              [@ EXCEPT !.req = r,
                        !.strategy = route.strategy,
                        !.cacheName = route.cacheName,
                        !.responded = IF route.strategy = "none" THEN 0 ELSE 1,
                        !.pc = CASE route.strategy = "none" -> "passthrough"
                                 [] route.strategy = "cacheFirst" -> "cf_open"
                                 [] OTHER -> "nf_open"]]
    /\ UNCHANGED << swState, skipWaitingFlag, installFailed, prevControls,
                    claimed, toDelete, deleted, installs, installOpened, pending, caches, puts,
                    writeLog, notSW >>

(* ---------------------------------------------------------------------- *)
(* cacheFirstStrategy (sw.js 99-134)                                       *)
(* ---------------------------------------------------------------------- *)
lifecycleVars == << swState, skipWaitingFlag, installFailed, prevControls,
                    claimed, toDelete, deleted, installs, installOpened, pending >>

\* mutant: response.ok in place of response.status === 200
ShouldStoreOk(resp) == resp # None /\ resp.status >= 200 /\ resp.status <= 299

\* response && response.status === 200
ShouldStore(resp) == resp # None /\ resp.status = 200

\* mutant: the put goes to the runtime store whatever store was asked for
PutOfRuntime(c, k, resp) ==
    [by |-> c, cacheName |-> RUNTIME_CACHE, url |-> k.req.url, resp |-> resp]

\* the cache.put(request, response.clone()) a call issues without awaiting it
PutOf(c, k, resp) ==
    [by |-> c, cacheName |-> k.cacheName, url |-> k.req.url, resp |-> resp]

\* mutant: a hit that awaits its background fetch before returning
CFServeHitAwaitsRefresh(k, entry, now) ==
    [k EXCEPT !.cached = entry, !.matchAt = now, !.storeOps = @ + 1,
              !.bg = "pending", !.pc = "cf_refresh"]

\* hit: the background fetch is started and the cached entry returned in
\* the same turn
CFServeHit(k, entry, now) ==
    [k EXCEPT !.cached = entry, !.matchAt = now, !.storeOps = @ + 1,
              !.bg = "pending",
              !.result = entry, !.source = "cache", !.pc = "done"]

\* miss: the strategy goes on to await fetch(request)
CFMiss(k, now) ==
    [k EXCEPT !.matchAt = now, !.storeOps = @ + 1, !.pc = "cf_fetch"]

\* await caches.open(cacheName) settles: the store exists from here on
CFOpen(c) ==
    /\ calls[c].pc = "cf_open"
    /\ caches' = CacheOpen(caches, calls[c].cacheName)
    /\ calls' = [calls EXCEPT ![c] =
           [@ EXCEPT !.storeOps = @ + 1, !.pc = "cf_match"]]
    /\ UNCHANGED << lifecycleVars, puts, writeLog, notSW >>

\* await cache.match(request) settles
CFMatch(c) ==
    /\ calls[c].pc = "cf_match"
    /\ LET k == calls[c]
           entry == MatchRequest(caches, k.cacheName, k.req)
       IN calls' = [calls EXCEPT ![c] =
              IF entry # None THEN CFServeHit(k, entry, Len(writeLog))
              ELSE CFMiss(k, Len(writeLog))]
    /\ UNCHANGED << lifecycleVars, caches, puts, writeLog, notSW >>

\* the .then of the background fetch: store a 200 response, else nothing
BgThen(k, resp) ==
    [k EXCEPT !.bgResp = resp,
              !.bg = IF ShouldStore(resp) THEN "put" ELSE "skipped"]

\* the .catch of the background fetch: the error is dropped
BgCatch(k) == [k EXCEPT !.bg = "failed"]

\* the background fetch of a hit settles with outcome o
BgResolve(c, o) ==
    /\ calls[c].bg = "pending"
    /\ o \in NetOutcomes
    /\ LET k == calls[c]
       IN IF o.kind = "resp"
          THEN /\ calls' = [calls EXCEPT ![c] = BgThen(k, o.resp)]
               /\ puts' = IF ShouldStore(o.resp)
                          THEN puts \cup {PutOf(c, k, o.resp)} ELSE puts
          ELSE /\ calls' = [calls EXCEPT ![c] = BgCatch(k)]
               /\ puts' = puts
    /\ UNCHANGED << lifecycleVars, caches, writeLog, notSW >>

\* the network answered: put it when it is a 200, and return it
ReturnNetwork(k, o) ==
    [k EXCEPT !.net = o, !.result = o.resp, !.source = "network",
              !.put = IF ShouldStore(o.resp) THEN "pending" ELSE "none",
              !.pc = "done"]

\* mutant: cacheFirstStrategy without its try/catch, the error escapes
CFRethrow(k, o) ==
    [k EXCEPT !.net = o, !.source = "exception", !.pc = "done"]

\* the catch of cacheFirstStrategy: a synthesized 503
CFCatch(k, o) ==
    [k EXCEPT !.net = o, !.result = CFUnavailable, !.source = "synth",
              !.pc = "done"]

\* miss: await fetch(request) settles with outcome o
CFMissFetch(c, o) ==
    /\ calls[c].pc = "cf_fetch"
    /\ o \in NetOutcomes
    /\ LET k == calls[c]
       IN IF o.kind = "resp"
          THEN /\ calls' = [calls EXCEPT ![c] = ReturnNetwork(k, o)]
               /\ puts' = IF ShouldStore(o.resp)
                          THEN puts \cup {PutOf(c, k, o.resp)} ELSE puts
          ELSE /\ calls' = [calls EXCEPT ![c] = CFCatch(k, o)]
               /\ puts' = puts
    /\ UNCHANGED << lifecycleVars, caches, writeLog, notSW >>

(* ---------------------------------------------------------------------- *)
(* networkFirstStrategy (sw.js 140-174)                                    *)
(* ---------------------------------------------------------------------- *)
\* the fetch threw: the strategy goes on to the cache
NFCatch(k, o) == [k EXCEPT !.net = o, !.pc = "nf_match"]

\* await caches.open(RUNTIME_CACHE) settles: the store exists from here on
NFOpen(c) ==
    /\ calls[c].pc = "nf_open"
    /\ caches' = CacheOpen(caches, RUNTIME_CACHE)
    /\ calls' = [calls EXCEPT ![c] =
           [@ EXCEPT !.storeOps = @ + 1, !.pc = "nf_fetch"]]
    /\ UNCHANGED << lifecycleVars, puts, writeLog, notSW >>

\* await fetch(request) settles with o
NFFetch(c, o) ==
    /\ calls[c].pc = "nf_fetch"
    /\ o \in NetOutcomes
    /\ LET k == calls[c]
       IN IF o.kind = "resp"
          THEN /\ calls' = [calls EXCEPT ![c] = ReturnNetwork(k, o)]
               /\ puts' = IF ShouldStore(o.resp)
                          THEN puts \cup {PutOf(c, k, o.resp)} ELSE puts
          ELSE /\ calls' = [calls EXCEPT ![c] = NFCatch(k, o)]
               /\ puts' = puts
    /\ UNCHANGED << lifecycleVars, caches, writeLog, notSW >>

\* the store networkFirstStrategy looks the offline page up in
OfflinePageStore == RUNTIME_CACHE

\* mutant: the catch block without its cache lookup
NFFallbackSkipsCache(k, cs, now) ==
    [k EXCEPT !.matchAt = now, !.result = NFUnavailable, !.source = "synth",
              !.pc = "done"]

\* the catch block after its first lookup: the cached copy when there is
\* one, else the lookup of the offline page for a document request, else
\* the synthesized 503
NFFallback(k, cs, now) ==
    LET cachedResponse == MatchRequest(cs, RUNTIME_CACHE, k.req)
    IN IF cachedResponse # None
       THEN [k EXCEPT !.cached = cachedResponse, !.matchAt = now,
                      !.storeOps = @ + 1,
                      !.result = cachedResponse, !.source = "cache",
                      !.pc = "done"]
       ELSE IF k.req.destination = "document"
       THEN [k EXCEPT !.matchAt = now, !.storeOps = @ + 1,
                      !.pc = "nf_offline"]
       ELSE [k EXCEPT !.matchAt = now, !.storeOps = @ + 1,
                      !.result = NFUnavailable, !.source = "synth",
                      !.pc = "done"]

\* await cache.match(request) of the catch block settles
NFMatch(c) ==
    /\ calls[c].pc = "nf_match"
    /\ calls' = [calls EXCEPT ![c] = NFFallback(calls[c], caches, Len(writeLog))]
    /\ UNCHANGED << lifecycleVars, caches, puts, writeLog, notSW >>

\* the offline page when the store holds it, else the synthesized 503
NFOfflineFallback(k, cs) ==
    LET offlinePage == CacheMatch(cs, OfflinePageStore, Resolve("/offline.html"))
    IN IF offlinePage # None
       THEN [k EXCEPT !.storeOps = @ + 1, !.result = offlinePage,
                      !.source = "offline", !.pc = "done"]
       ELSE [k EXCEPT !.storeOps = @ + 1, !.result = NFUnavailable,
                      !.source = "synth", !.pc = "done"]

\* await cache.match('/offline.html') settles
NFOffline(c) ==
    /\ calls[c].pc = "nf_offline"
    /\ calls' = [calls EXCEPT ![c] = NFOfflineFallback(calls[c], caches)]
    /\ UNCHANGED << lifecycleVars, caches, puts, writeLog, notSW >>

(* ---------------------------------------------------------------------- *)
(* The detached cache.put calls                                            *)
(* ---------------------------------------------------------------------- *)
\* cache.put rejects a request of another method than GET
PutAccepted(req) == req.method = "GET"

\* an issued cache.put settles: it writes its entry, or it rejects and
\* nothing is written (the rejection is not handled)
PutComplete(p) ==
    /\ p \in puts
    /\ puts' = puts \ {p}
    /\ IF PutAccepted(calls[p.by].req)
       THEN /\ caches' = CachePut(caches, p.cacheName, p.url, p.resp)
            /\ writeLog' = Append(writeLog,
                   [cacheName |-> p.cacheName, url |-> p.url, resp |-> p.resp])
            /\ calls' = [calls EXCEPT ![p.by] =
                   [@ EXCEPT !.wrote = Len(writeLog) + 1,
                             !.put = IF @ = "pending" THEN "written" ELSE @,
                             !.bg = IF @ = "put" THEN "written" ELSE @]]
       ELSE /\ calls' = [calls EXCEPT ![p.by] =
                   [@ EXCEPT !.put = IF @ = "pending" THEN "rejected" ELSE @,
                             !.bg = IF @ = "put" THEN "rejected" ELSE @]]
            /\ UNCHANGED << caches, writeLog >>
    /\ UNCHANGED << lifecycleVars, notSW >>

(* ---------------------------------------------------------------------- *)
(* Specification of the service worker                                     *)
(* ---------------------------------------------------------------------- *)
SWNext ==
    \/ InstallOpen
    \/ InstallOk
    \/ InstallSettled
    \/ \E a \in 1..Len(STATIC_ASSETS) : InstallFail(a)
    \/ PrevClientsClose
    \/ Activate
    \/ ActivateKeys
    \/ \E n \in CacheNames : DeleteCache(n)
    \/ ClaimClients
    \/ ActivateSettled
    \/ \E c \in Calls, r \in Requests : FetchEvent(c, r)
    \/ \E c \in Calls : CFOpen(c)
    \/ \E c \in Calls : CFMatch(c)
    \/ \E c \in Calls, o \in NetOutcomes : BgResolve(c, o)
    \/ \E c \in Calls, o \in NetOutcomes : CFMissFetch(c, o)
    \/ \E c \in Calls : NFOpen(c)
    \/ \E c \in Calls, o \in NetOutcomes : NFFetch(c, o)
    \/ \E c \in Calls : NFMatch(c)
    \/ \E c \in Calls : NFOffline(c)
    \/ \E p \in puts : PutComplete(p)

(* ---------------------------------------------------------------------- *)
(* fetchWithBackoff (part_002 210-251)                                     *)
(* ---------------------------------------------------------------------- *)
\* largest retries argument the model draws
MaxRetries == 3

\* the delay arguments the model draws (1000 is the default and the value
\* the chat route passes)
InitialDelays == {500, 1000}

\* what the upstream can do to one attempt: answer with a status, fail the
\* connection, or not answer within the 30 s of the abort timer
UpstreamOutcomes == {"200", "429", "503", "400", "neterror", "hang"}

StatusOf(o) ==
    CASE o = "200" -> 200 [] o = "429" -> 429 [] o = "503" -> 503
      [] o = "400" -> 400 [] OTHER -> 0

\* apiResponse.ok
IsOk(status) == status >= 200 /\ status <= 299

\* mutant: every failure status is retried
IsRetryStatusAnyFailure(status) == status >= 400

\* apiResponse.status === 503 || apiResponse.status === 429
IsRetryStatus(status) == status = 503 \/ status = 429

NoResult == [kind |-> "none", status |-> 0, error |-> "", attempt |-> 0]
Returned(status, n) ==
    [kind |-> "response", status |-> status, error |-> "", attempt |-> n]
Thrown(err, n) == [kind |-> "thrown", status |-> 0, error |-> err, attempt |-> n]

\* all sequences over S of length n
RECURSIVE SeqsOfLen(_, _)
SeqsOfLen(S, n) ==
    IF n = 0 THEN { << >> }
    ELSE { Append(q, x) : q \in SeqsOfLen(S, n - 1), x \in S }

FBOff ==
    /\ fbUpstream = << >>
    /\ fbRetries = 0
    /\ fbInitialDelay = 0
    /\ fbPc = "off"
    /\ fbI = 0
    /\ fbDelay = 0
    /\ fbAttempts = 0
    /\ fbWaits = << >>
    /\ fbResult = NoResult

\* entry of fetchWithBackoff(url, options, retries, delay)
FBInit ==
    /\ fbUpstream \in SeqsOfLen(UpstreamOutcomes, MaxRetries + 1)
    /\ fbRetries \in 1..MaxRetries
    /\ fbInitialDelay \in InitialDelays
    /\ fbPc = "loop"
    /\ fbI = 0
    /\ fbDelay = fbInitialDelay
    /\ fbAttempts = 0
    /\ fbWaits = << >>
    /\ fbResult = NoResult

\* the loop test passes: the timer is armed and fetch is called
FBAttempt ==
    /\ fbPc = "loop"
    /\ fbI < fbRetries
    /\ fbAttempts' = fbAttempts + 1
    /\ fbPc' = "fetching"
    /\ UNCHANGED << fbUpstream, fbRetries, fbInitialDelay, fbI, fbDelay,
                    fbWaits, fbResult, notFB >>

\* what the try block does with a response of this status
OnResponse(status) ==
    IF IsOk(status) THEN "return"
    ELSE IF IsRetryStatus(status) THEN "wait"
    ELSE "return"

\* the upstream answers the pending attempt
FBRespond ==
    /\ fbPc = "fetching"
    /\ StatusOf(fbUpstream[fbAttempts]) # 0
    /\ LET status == StatusOf(fbUpstream[fbAttempts])
       IN IF OnResponse(status) = "return"
          THEN /\ fbResult' = Returned(status, fbAttempts)
               /\ fbPc' = "returned"
               /\ fbWaits' = fbWaits
          ELSE /\ fbResult' = fbResult
               /\ fbPc' = "waiting"
               /\ fbWaits' = Append(fbWaits, fbDelay)
    /\ UNCHANGED << fbUpstream, fbRetries, fbInitialDelay, fbI, fbDelay,
                    fbAttempts, notFB >>

\* what the catch block does with an error thrown in iteration i
OnError(i, retries) == IF i < retries - 1 THEN "wait" ELSE "throw"

\* the catch block, entered with the error named err
FBCatch(err) ==
    /\ IF OnError(fbI, fbRetries) = "wait"
       THEN /\ fbResult' = fbResult
            /\ fbPc' = "waiting"
            /\ fbWaits' = Append(fbWaits, fbDelay)
       ELSE /\ fbResult' = Thrown(err, fbAttempts)
            /\ fbPc' = "thrown"
            /\ fbWaits' = fbWaits
    /\ UNCHANGED << fbUpstream, fbRetries, fbInitialDelay, fbI, fbDelay,
                    fbAttempts, notFB >>

\* the pending fetch rejects with a network error
FBNetworkError ==
    /\ fbPc = "fetching"
    /\ fbUpstream[fbAttempts] = "neterror"
    /\ FBCatch("TypeError")

\* mutant: an aborted attempt is rethrown at once, never retried
FBTimeoutThrows ==
    /\ fbPc = "fetching"
    /\ fbUpstream[fbAttempts] = "hang"
    /\ fbResult' = Thrown("AbortError", fbAttempts)
    /\ fbPc' = "thrown"
    /\ UNCHANGED << fbUpstream, fbRetries, fbInitialDelay, fbI, fbDelay,
                    fbAttempts, fbWaits, notFB >>

\* the 30 s timer fires first: controller.abort() rejects the fetch
FBTimeout ==
    /\ fbPc = "fetching"
    /\ fbUpstream[fbAttempts] = "hang"
    /\ FBCatch("AbortError")

\* mutant: a retry that does not count as an iteration (i is not advanced)
FBWakeNotCounted ==
    /\ fbPc = "waiting"
    /\ fbDelay' = fbDelay * 2
    /\ fbI' = fbI
    /\ fbPc' = "loop"
    /\ UNCHANGED << fbUpstream, fbRetries, fbInitialDelay, fbAttempts,
                    fbWaits, fbResult, notFB >>

\* mutant: the delay is not doubled
FBWakeNoDoubling ==
    /\ fbPc = "waiting"
    /\ fbDelay' = fbDelay
    /\ fbI' = fbI + 1
    /\ fbPc' = "loop"
    /\ UNCHANGED << fbUpstream, fbRetries, fbInitialDelay, fbAttempts,
                    fbWaits, fbResult, notFB >>

\* the setTimeout of the delay fires: delay *= 2, then i++
FBWake ==
    /\ fbPc = "waiting"
    /\ fbDelay' = fbDelay * 2
    /\ fbI' = fbI + 1
    /\ fbPc' = "loop"
    /\ UNCHANGED << fbUpstream, fbRetries, fbInitialDelay, fbAttempts,
                    fbWaits, fbResult, notFB >>

\* the loop test fails: throw new Error('API call failed after all retries.')
FBExhausted ==
    /\ fbPc = "loop"
    /\ ~(fbI < fbRetries)
    /\ fbResult' = Thrown("API call failed after all retries.", 0)
    /\ fbPc' = "thrown"
    /\ UNCHANGED << fbUpstream, fbRetries, fbInitialDelay, fbI, fbDelay,
                    fbAttempts, fbWaits, notFB >>

FBNext ==
    \/ FBAttempt
    \/ FBRespond
    \/ FBNetworkError
    \/ FBTimeout
    \/ FBWake
    \/ FBExhausted

(* ---------------------------------------------------------------------- *)
(* The deferred submissions: the object store 'submissions' of            *)
(* PortfolioSyncDB and syncFormSubmissions (sw.js 178-251)                 *)
(* ---------------------------------------------------------------------- *)
\* number of records the store starts with, at most
MaxSubs == 2
\* number of sync events in one behaviour
MaxSyncs == 2

SubIds == 1..MaxSubs
Syncs == 1..MaxSyncs

\* the tags a sync event may carry
SyncTags == {"sync-form-submission", "sync-other"}

\* a record of the store: keyPath 'id', the url and the payload to replay
PendingRecord(id) ==
    [id |-> id, url |-> Resolve("/api/send"), data |-> [message |-> id]]

\* response.ok
ResponseOk(resp) == resp.status >= 200 /\ resp.status <= 299

RECURSIVE SortedIds(_)
SortedIds(S) ==
    IF S = {} THEN << >>
    ELSE LET m == CHOOSE x \in S : \A y \in S : x <= y
         IN << m >> \o SortedIds(S \ {m})

\* store.getAll(): every record, in key order
GetAll(store) ==
    LET ids == SortedIds(DOMAIN store)
    IN [j \in 1..Len(ids) |-> store[ids[j]]]

\* store.delete(id): removing an absent key succeeds and changes nothing
StoreDelete(store, id) == [i \in (DOMAIN store) \ {id} |-> store[i]]

IdleRun ==
    [ pc |-> "idle", tag |-> "", submissions |-> << >>, idx |-> 0,
      removed |-> {}, endStore |-> {} ]

SYOff ==
    /\ syStore = << >>
    /\ syRuns = [k \in Syncs |-> IdleRun]
    /\ syPosts = << >>

\* the store is durable and shared by every script of the origin: a run
\* may find any records in it
SYInit ==
    /\ \E S \in SUBSET SubIds : syStore = [i \in S |-> PendingRecord(i)]
    /\ syRuns = [k \in Syncs |-> IdleRun]
    /\ syPosts = << >>

\* the sync listener: only the tag 'sync-form-submission' starts a run
SyncListener(r, tag) ==
    [r EXCEPT !.tag = tag,
              !.pc = IF tag = "sync-form-submission" THEN "open" ELSE "ignored"]

\* a sync event reaches the worker once the promise the previous one gave
\* to waitUntil has settled
SyncEvent(k, tag) ==
    /\ swState = "activated"
    /\ syRuns[k].pc = "idle"
    /\ \A j \in Syncs : j < k =>
          syRuns[j].pc \in {"ignored", "done", "rejected"}
    /\ tag \in SyncTags
    /\ syRuns' = [syRuns EXCEPT ![k] = SyncListener(@, tag)]
    /\ UNCHANGED << syStore, syPosts, notSY >>

\* a sync event dispatched while an earlier run is still in progress
SyncEventOverlapping(k, tag) ==
    /\ swState = "activated"
    /\ syRuns[k].pc = "idle"
    /\ \A j \in Syncs : j < k => syRuns[j].pc # "idle"
    /\ tag \in SyncTags
    /\ syRuns' = [syRuns EXCEPT ![k] = SyncListener(@, tag)]
    /\ UNCHANGED << syStore, syPosts, notSY >>

\* the for-of loop moves to the next element of the list it was given,
\* and the run ends after the last one
NextSubmission(r, store) ==
    IF r.idx + 1 > Len(r.submissions)
    THEN [r EXCEPT !.idx = @ + 1, !.pc = "done", !.endStore = DOMAIN store]
    ELSE [r EXCEPT !.idx = @ + 1, !.pc = "post"]

\* await openDB() settles: a rejection rejects the whole run
SyncOpen(k, ok) ==
    /\ syRuns[k].pc = "open"
    /\ ok \in BOOLEAN
    /\ syRuns' = [syRuns EXCEPT ![k] =
           [@ EXCEPT !.pc = IF ok THEN "read" ELSE "rejected"]]
    /\ UNCHANGED << syStore, syPosts, notSY >>

\* await getAllPendingSubmissions(db) settles: the run works on the list
\* read here; a rejection rejects the whole run
SyncRead(k, ok) ==
    /\ syRuns[k].pc = "read"
    /\ ok \in BOOLEAN
    /\ syRuns' = [syRuns EXCEPT ![k] =
           IF ok
           THEN NextSubmission([@ EXCEPT !.submissions = GetAll(syStore)],
                               syStore)
           ELSE [@ EXCEPT !.pc = "rejected"]]
    /\ UNCHANGED << syStore, syPosts, notSY >>

\* mutant: the record is removed whatever the status of the response
OnPostSettledNoOkTest(r, o, store) ==
    IF o.kind = "resp" THEN [r EXCEPT !.pc = "remove"]
    ELSE NextSubmission(r, store)

\* if (response.ok) remove the record; a thrown fetch is caught and the
\* record kept
OnPostSettled(r, o, store) ==
    IF o.kind = "resp" /\ ResponseOk(o.resp) THEN [r EXCEPT !.pc = "remove"]
    ELSE NextSubmission(r, store)

\* await fetch(submission.url, {method: 'POST', ...}) settles with o
SyncPost(k, o) ==
    /\ syRuns[k].pc = "post"
    /\ o \in NetOutcomes
    /\ LET r == syRuns[k]
           sub == r.submissions[r.idx]
       IN /\ syPosts' = Append(syPosts,
                 [run |-> k, id |-> sub.id, url |-> sub.url,
                  data |-> sub.data, net |-> o])
          /\ syRuns' = [syRuns EXCEPT ![k] = OnPostSettled(r, o, syStore)]
    /\ UNCHANGED << syStore, notSY >>

\* await removePendingSubmission(db, id) settles: a rejection lands in the
\* catch of the loop body and the loop goes on
OnRemoveSettled(r, ok, store) ==
    IF ok THEN NextSubmission([r EXCEPT !.removed =
                                 @ \cup {r.submissions[r.idx].id}], store)
    ELSE NextSubmission(r, store)

SyncRemove(k, ok) ==
    /\ syRuns[k].pc = "remove"
    /\ ok \in BOOLEAN
    /\ LET r == syRuns[k]
           store == IF ok THEN StoreDelete(syStore, r.submissions[r.idx].id)
                    ELSE syStore
       IN /\ syStore' = store
          /\ syRuns' = [syRuns EXCEPT ![k] = OnRemoveSettled(r, ok, store)]
    /\ UNCHANGED << syPosts, notSY >>

SyncSteps ==
    \/ \E k \in Syncs, ok \in BOOLEAN : SyncOpen(k, ok)
    \/ \E k \in Syncs, ok \in BOOLEAN : SyncRead(k, ok)
    \/ \E k \in Syncs, o \in NetOutcomes : SyncPost(k, o)
    \/ \E k \in Syncs, ok \in BOOLEAN : SyncRemove(k, ok)

(* ---------------------------------------------------------------------- *)
(* Portfolio.loadPortfolioData (part_001 44-96)                            *)
(* ---------------------------------------------------------------------- *)
\* number of loadPortfolioData runs in one behaviour
MaxLoads == 2
Loads == 1..MaxLoads

MAX_RETRIES == 3

\* what fetch('/api/portfolio-data') and the rendering of its data do:
\* data that renders, data a render function throws on (a missing
\* section), the JSON value null, a JSON value that is falsy and not null
\* (0, false, ""), a body response.json() rejects, a non-ok status, a
\* rejected fetch
LoadOutcomes ==
    {"ok", "badshape", "nulljson", "falsyjson", "badjson", "http500", "neterror"}

IdleLoad ==
    [ pc |-> "idle", by |-> "", attempt |-> 0, fetches |-> 0, waits |-> << >>,
      got |-> "", rendered |-> "none", animations |-> 0 ]

\* a run from its start to its first await: attempt = 0, the loop entered,
\* fetch('/api/portfolio-data') issued
StartLoad(by) == [IdleLoad EXCEPT !.pc = "fetching", !.by = by, !.fetches = 1]

PFOff ==
    /\ pfData = "null"
    /\ pfOnline = TRUE
    /\ pfLoads = [l \in Loads |-> IdleLoad]

\* new Portfolio(): portfolioData = null, init() registers the listeners
\* and starts the first load
PFInit ==
    /\ pfData = "null"
    /\ pfOnline \in BOOLEAN
    /\ pfLoads = [l \in Loads |-> IF l = 1 THEN StartLoad("init") ELSE IdleLoad]

\* the 'offline' listener
GoOffline ==
    /\ pfOnline
    /\ pfOnline' = FALSE
    /\ UNCHANGED << pfData, pfLoads, notPF >>

\* if (this.portfolioData === null) this.loadPortfolioData()
OnlineStartsLoad(data) == data = "null"

\* the 'online' listener
GoOnline ==
    /\ ~pfOnline
    /\ pfOnline' = TRUE
    /\ IF OnlineStartsLoad(pfData)
       THEN \E l \in Loads :
               /\ pfLoads[l].pc = "idle"
               /\ \A m \in Loads : m < l => pfLoads[m].pc # "idle"
               /\ pfLoads' = [pfLoads EXCEPT ![l] = StartLoad("online")]
       ELSE pfLoads' = pfLoads
    /\ UNCHANGED << pfData, notPF >>

\* the try block ran to its return: the four sections rendered from the
\* data (each render function shows its placeholder when
\* !this.portfolioData), and the function returned from inside the loop
LoadSucceeded(r) ==
    [r EXCEPT !.rendered = IF r.got \in {"nulljson", "falsyjson"}
                           THEN "fallback" ELSE "data",
              !.pc = "done"]

\* the delay waited after the attempt-th failure
LoadDelay(attempt) == (2 ^ attempt) * 1000

\* the catch block: attempt++, then the fallback rendering when the
\* attempts are used up (the loop then ends and setupDynamicAnimations
\* runs), else the wait before the next turn of the loop
LoadFailed(r) ==
    LET attempt == r.attempt + 1
    IN IF attempt >= MAX_RETRIES
       THEN [r EXCEPT !.attempt = attempt, !.rendered = "fallback",
                      !.animations = @ + 1, !.pc = "done"]
       ELSE [r EXCEPT !.attempt = attempt,
                      !.waits = Append(@, LoadDelay(attempt)),
                      !.pc = "waiting"]

\* await fetch(...) settles with outcome o: a rejection or a non-ok
\* status goes to the catch block, an ok response is handed to
\* response.json()
LoadFetchSettles(l, o) ==
    /\ pfLoads[l].pc = "fetching"
    /\ o \in LoadOutcomes
    /\ pfLoads' = [pfLoads EXCEPT ![l] =
           IF o \in {"http500", "neterror"}
           THEN LoadFailed(@)
           ELSE [@ EXCEPT !.pc = "parsing", !.got = o]]
    /\ UNCHANGED << pfData, pfOnline, notPF >>

\* await response.json() settles: portfolioData is assigned before the
\* render functions run; a rejected json() assigns nothing
LoadJsonSettles(l) ==
    /\ pfLoads[l].pc = "parsing"
    /\ pfData' = CASE pfLoads[l].got = "badjson" -> pfData
                  [] pfLoads[l].got = "nulljson" -> "null"
                  [] OTHER -> "loaded"
    /\ pfLoads' = [pfLoads EXCEPT ![l] =
           IF @.got \in {"ok", "nulljson", "falsyjson"} THEN LoadSucceeded(@)
           ELSE LoadFailed(@)]
    /\ UNCHANGED << pfOnline, notPF >>

\* the setTimeout of the backoff fires: next turn of the while loop
LoadWake(l) ==
    /\ pfLoads[l].pc = "waiting"
    /\ pfLoads' = [pfLoads EXCEPT ![l] =
           [@ EXCEPT !.pc = "fetching", !.fetches = @ + 1]]
    /\ UNCHANGED << pfData, pfOnline, notPF >>

PFNext ==
    \/ GoOffline
    \/ GoOnline
    \/ \E l \in Loads, o \in LoadOutcomes : LoadFetchSettles(l, o)
    \/ \E l \in Loads : LoadJsonSettles(l)
    \/ \E l \in Loads : LoadWake(l)

(* ---------------------------------------------------------------------- *)
(* PortfolioAPI.fetchWithRetry (portfolio-api.js 13-30)                    *)
(* ---------------------------------------------------------------------- *)
\* largest retries argument tried
MaxRetryArg == 3

\* what the server does to one attempt: valid JSON with an ok status, a
\* non-ok status, a rejected fetch, an ok status with a body json() rejects
RetryOutcomes == {"ok", "http404", "http500", "neterror", "badjson"}

\* the error the try block throws on outcome o
RetryErrorOf(o) ==
    CASE o = "http404" -> "HTTP 404: Not Found"
      [] o = "http500" -> "HTTP 500: Internal Server Error"
      [] o = "neterror" -> "TypeError: Failed to fetch"
      [] o = "badjson" -> "SyntaxError: Unexpected token < in JSON"
      [] OTHER -> ""

FROff ==
    /\ frServer = << >>
    /\ frArg = 0
    /\ frPc = "off"
    /\ frRetries = 0
    /\ frAttempts = 0
    /\ frWaits = << >>
    /\ frLog = << >>
    /\ frResult = NoResult

\* fetchWithRetry(url, options, retries) is called and issues its fetch
FRInit ==
    /\ frServer \in SeqsOfLen(RetryOutcomes, MaxRetryArg + 1)
    /\ frArg \in 0..MaxRetryArg
    /\ frPc = "fetching"
    /\ frRetries = frArg
    /\ frAttempts = 1
    /\ frWaits = << >>
    /\ frLog = << >>
    /\ frResult = NoResult

\* await fetch(url, options) resolves with an ok response, which is handed
\* to response.json()
FRResponse ==
    /\ frPc = "fetching"
    /\ frServer[frAttempts] \in {"ok", "badjson"}
    /\ frPc' = "parsing"
    /\ UNCHANGED << frServer, frArg, frRetries, frAttempts, frWaits, frLog,
                    frResult, notFR >>

\* await response.json() resolves: the parsed body is returned, and every
\* enclosing call returns it in turn
FRResolve ==
    /\ frPc = "parsing"
    /\ frServer[frAttempts] = "ok"
    /\ frPc' = "resolved"
    /\ frResult' = Returned(200, frAttempts)
    /\ UNCHANGED << frServer, frArg, frRetries, frAttempts, frWaits, frLog,
                    notFR >>

\* mutant: the catch block retries while retries > 1
RetriesLeftOffByOne(retries) == retries > 1

\* if (retries > 0)
RetriesLeft(retries) == retries > 0

\* the catch block: log and wait when retries are left, else rethrow; the
\* rejection passes through every enclosing call unchanged
FRCatch ==
    /\ \/ frPc = "fetching" /\ frServer[frAttempts] \notin {"ok", "badjson"}
       \/ frPc = "parsing" /\ frServer[frAttempts] = "badjson"
    /\ IF RetriesLeft(frRetries)
       THEN /\ frLog' = Append(frLog, 4 - frRetries)
            /\ frWaits' = Append(frWaits, (4 - frRetries) * 1000)
            /\ frPc' = "waiting"
            /\ frResult' = frResult
       ELSE /\ frPc' = "rejected"
            /\ frResult' = Thrown(RetryErrorOf(frServer[frAttempts]), frAttempts)
            /\ UNCHANGED << frLog, frWaits >>
    /\ UNCHANGED << frServer, frArg, frRetries, frAttempts, notFR >>

\* the timer fires: this.fetchWithRetry(url, options, retries - 1)
FRWake ==
    /\ frPc = "waiting"
    /\ frRetries' = frRetries - 1
    /\ frAttempts' = frAttempts + 1
    /\ frPc' = "fetching"
    /\ UNCHANGED << frServer, frArg, frWaits, frLog, frResult, notFR >>

FRNext ==
    \/ FRResponse
    \/ FRResolve
    \/ FRCatch
    \/ FRWake

(* ---------------------------------------------------------------------- *)
(* The failure responses of the backend (part_002, part_001)               *)
(* ---------------------------------------------------------------------- *)
\* process.env.NODE_ENV: set to one of these, or not set ("")
Envs == {"production", "development", ""}

\* err.message of the errors the handlers catch
ErrorTexts ==
    { "connect ECONNREFUSED 10.0.0.5:587",
      "API call failed with status: 400",
      "Unexpected token } in JSON at position 15",
      "" }

\* err.status: not set (0), or set by the middleware that raised the error
ErrorStatuses == {0, 400, 404, 413}

Err(m, st) == [message |-> m, status |-> st]
Errors == { Err(m, st) : m \in ErrorTexts, st \in ErrorStatuses }

Reply(st, m) == [status |-> st, success |-> FALSE, message |-> m]
NoReply == Reply(0, "")

SendMessage ==
    "An error occurred. Please try again or contact me directly at sugampokharel28@gmail.com."
SendMessageLong ==
    "An error occurred while sending your message. Please try again later or contact me directly at sugampokharel28@gmail.com."
ChatMessage ==
    "I apologize, but I'm currently unable to process your request. Please email Sugam directly at sugampokharel28@gmail.com."
ChatMessageLong ==
    "I apologize, but I'm currently unable to process your request. Please feel free to email Sugam directly at sugampokharel28@gmail.com and he'll get back to you shortly!"
MiddlewareDefaults ==
    { "An unexpected error occurred.",
      "An unexpected error occurred. Please try again later." }

\* the catch of app.post('/api/send') in part_002
SendCatchReply(env, err) == Reply(500, SendMessage)

\* the catch of app.post('/api/send') in part_001
SendCatchDetailReply(env, err) ==
    Reply(500, IF env = "development" THEN "Error: " \o err.message
               ELSE SendMessageLong)

\* the catch of app.post('/api/chat') in part_002
ChatCatchReply(env, err) == Reply(500, ChatMessage)

\* the catch of app.post('/api/chat') in part_001
ChatCatchDetailReply(env, err) ==
    Reply(500, IF env = "development"
               THEN ChatMessageLong \o " (Error: " \o err.message \o ")"
               ELSE ChatMessageLong)

\* the final error-handling middleware: err.status || 500 and
\* err.message || the default text
MiddlewareReply(env, err, default) ==
    Reply(IF err.status # 0 THEN err.status ELSE 500,
          IF err.message # "" THEN err.message ELSE default)

EROff ==
    /\ erEnv = ""
    /\ erError = Err("", 0)
    /\ erHandler = "none"
    /\ erResponse = NoReply

ERInit ==
    /\ erEnv \in Envs
    /\ erError \in Errors
    /\ erHandler = "none"
    /\ erResponse = NoReply

\* handler h catches the error and sends reply
Respond(h, reply) ==
    /\ erHandler = "none"
    /\ erHandler' = h
    /\ erResponse' = reply
    /\ UNCHANGED << erEnv, erError, notER >>

SendCatch == Respond("send", SendCatchReply(erEnv, erError))
SendCatchDetail == Respond("send", SendCatchDetailReply(erEnv, erError))
ChatCatch == Respond("chat", ChatCatchReply(erEnv, erError))
ChatCatchDetail == Respond("chat", ChatCatchDetailReply(erEnv, erError))
ErrorMiddleware(default) ==
    /\ default \in MiddlewareDefaults
    /\ Respond("middleware", MiddlewareReply(erEnv, erError, default))

\* the failure replies app.post('/api/send') sends before its try block
\* has anything to catch: a rejected form (400) and a missing
\* VERIFIED_SENDER_EMAIL (500)
SendRefusals ==
    { Reply(400, t) :
        t \in { "Please fill out all fields.",
                "Name must be between 2 and 100 characters.",
                "Please provide a valid email address.",
                "Message must be between 1 and 3000 characters.",
                "Message must be between 1 and 5000 characters." } }
    \cup { Reply(500, "Server configuration error. Please contact the administrator.") }

SendRefuse(r) ==
    /\ r \in SendRefusals
    /\ Respond("send", r)

\* the 400 replies of app.post('/api/chat'): a rejected message, a prompt
\* or an answer the AI API blocked
ChatRefusals ==
    { Reply(400, t) :
        t \in { "Please provide a valid message.",
                "Message cannot be empty.",
                "Message is too long. Please keep it under 2000 characters.",
                "I cannot respond to that. Please ask about Sugam's portfolio.",
                "I apologize, but I cannot respond to that message. Please try rephrasing your question or ask about Sugam's portfolio, skills, or projects.",
                "I apologize, but I cannot provide a response to that. Please try asking about Sugam's portfolio, skills, or projects." } }

ChatRefuse(r) ==
    /\ r \in ChatRefusals
    /\ Respond("chat", r)

\* the failure replies of app.get('/api/models') outside its catch: no API
\* key, and the upstream's status with the upstream's body
ModelsRefusals ==
    { [status |-> 500, error |-> "API key not configured"],
      [status |-> 400, error |-> "API key not valid. Please pass a valid API key."],
      [status |-> 403, error |-> "Permission denied"] }

ModelsRefuse(r) ==
    /\ r \in ModelsRefusals
    /\ Respond("models", r)

\* the catch of app.get('/api/resume') in part_002
ResumeCatch == Respond("resume", Reply(500, "Could not generate resume."))

\* the catch of app.get('/api/models') in part_001: the body is
\* {error: error.message} under every NODE_ENV
ModelsCatch ==
    Respond("models", [status |-> 500, error |-> erError.message])

ERNext ==
    \/ \E r \in SendRefusals : SendRefuse(r)
    \/ \E r \in ChatRefusals : ChatRefuse(r)
    \/ \E r \in ModelsRefusals : ModelsRefuse(r)
    \/ ResumeCatch
    \/ ModelsCatch
    \/ SendCatch
    \/ SendCatchDetail
    \/ ChatCatch
    \/ ChatCatchDetail
    \/ \E d \in MiddlewareDefaults : ErrorMiddleware(d)

(* ---------------------------------------------------------------------- *)
(* Specifications                                                          *)
(* ---------------------------------------------------------------------- *)
SWOff ==
    /\ swState = "off"
    /\ skipWaitingFlag = FALSE
    /\ installFailed = FALSE
    /\ prevControls = FALSE
    /\ claimed = FALSE
    /\ toDelete = {}
    /\ deleted = {}
    /\ installs = 0
    /\ installOpened = FALSE
    /\ pending = ""
    /\ caches = << >>
    /\ calls = [c \in Calls |-> IdleCall]
    /\ puts = {}
    /\ writeLog = << >>

\* every part but the service worker and its deferred submissions at rest
RestOff == FBOff /\ PFOff /\ FROff /\ EROff

\* the service worker
Init == SWInit /\ SYOff /\ RestOff
Next == SWNext
Spec == Init /\ [][Next]_vars

\* what a store left by an earlier run holds: the primary store the result
\* of an earlier install of the same asset list, any other store one entry
PriorStore(n) ==
    IF n = CACHE_VERSION
    THEN [u \in ManifestURLs |-> Resp(200, "previous")]
    ELSE ("https://sugam.dev/" :> Resp(200, "old"))

\* the lifecycle alone, started over any set of existing stores
LifecycleInit ==
    /\ swState = "installing"
    /\ skipWaitingFlag = FALSE
    /\ installFailed = FALSE
    /\ prevControls \in BOOLEAN
    /\ claimed = FALSE
    /\ toDelete = {}
    /\ deleted = {}
    /\ \E pre \in SUBSET (OldCaches \cup currentCaches) :
          /\ caches = [n \in pre |-> PriorStore(n)]
          /\ installs = IF CACHE_VERSION \in pre THEN 1 ELSE 0
    /\ installOpened = FALSE
    /\ pending = ""
    /\ calls = [c \in Calls |-> IdleCall]
    /\ puts = {}
    /\ writeLog = << >>
    /\ SYOff
    /\ RestOff

LifecycleNext ==
    \/ InstallOpen
    \/ InstallOk
    \/ InstallSettled
    \/ \E a \in 1..Len(STATIC_ASSETS) : InstallFail(a)
    \/ PrevClientsClose
    \/ Activate
    \/ ActivateKeys
    \/ \E n \in CacheNames : DeleteCache(n)
    \/ ClaimClients
    \/ ActivateSettled

LifecycleSpec == LifecycleInit /\ [][LifecycleNext]_vars

\* one fetchWithBackoff call
BackoffInit == SWOff /\ FBInit /\ SYOff /\ PFOff /\ FROff /\ EROff
BackoffNext == FBNext
BackoffSpec == BackoffInit /\ [][BackoffNext]_vars

\* one fetchWithBackoff call when every pending fetch settles or is
\* aborted by its timer and every setTimeout fires
BackoffFairSpec ==
    BackoffInit /\ [][BackoffNext]_vars /\ WF_vars(BackoffNext)

\* an installed, activated worker that controls its clients
SWActive ==
    /\ swState = "activated"
    /\ skipWaitingFlag = TRUE
    /\ installFailed = FALSE
    /\ prevControls = FALSE
    /\ claimed = TRUE
    /\ toDelete = {}
    /\ deleted = {}
    /\ installs = 1
    /\ installOpened = TRUE
    /\ pending = ""
    /\ caches = CacheAddAll(CacheOpen(<< >>, CACHE_VERSION), CACHE_VERSION,
                            ManifestURLs, InstalledResp)
    /\ calls = [c \in Calls |-> IdleCall]
    /\ puts = {}
    /\ writeLog = << >>

\* the replay of deferred submissions, one sync event at a time
SyncInit == SWActive /\ SYInit /\ RestOff
SyncNext ==
    \/ \E k \in Syncs, tag \in SyncTags : SyncEvent(k, tag)
    \/ SyncSteps
SyncSpec == SyncInit /\ [][SyncNext]_vars

\* the same with sync events that may overlap
SyncOverlapNext ==
    \/ \E k \in Syncs, tag \in SyncTags : SyncEventOverlapping(k, tag)
    \/ SyncSteps
SyncOverlapSpec == SyncInit /\ [][SyncOverlapNext]_vars

\* the contact form's write requests, answered by the fetch listener and
\* networkFirstStrategy, and the sync events that follow them
WriteNext ==
    \/ \E c \in Calls : FetchEvent(c, SendRequest)
    \/ \E c \in Calls : NFOpen(c)
    \/ \E c \in Calls, o \in NetOutcomes : NFFetch(c, o)
    \/ \E c \in Calls : NFMatch(c)
    \/ \E p \in puts : PutComplete(p)
    \/ SyncNext
WriteSpec == SyncInit /\ [][WriteNext]_vars

\* one failing request of the backend
ErrorInit == SWOff /\ FBOff /\ SYOff /\ PFOff /\ FROff /\ ERInit
ErrorNext == ERNext
ErrorSpec == ErrorInit /\ [][ErrorNext]_vars

\* the page and its loads of the portfolio data
PageInit == SWOff /\ FBOff /\ SYOff /\ PFInit /\ FROff /\ EROff
PageNext == PFNext
PageSpec == PageInit /\ [][PageNext]_vars

\* one PortfolioAPI.fetchWithRetry call
RetryInit == SWOff /\ FBOff /\ SYOff /\ PFOff /\ FRInit /\ EROff
RetryNext == FRNext
RetrySpec == RetryInit /\ [][RetryNext]_vars

(* ---------------------------------------------------------------------- *)
(* Claims                                                                  *)
(* ---------------------------------------------------------------------- *)
Finished(k) == k.pc = "done"

SameOrigin(r) == OriginOf(r.url) = SelfOrigin

\* C1: a document request handled by networkFirstStrategy whose fetch fails
\* and that has no entry in the runtime store is answered with the offline
\* page install pre-cached, not with a 503 placeholder.
C1_OfflineDocumentServed ==
    \A c \in Calls :
        LET k == calls[c]
        IN ( /\ Finished(k)
             /\ k.strategy = "networkFirst"
             /\ k.req.destination = "document"
             /\ k.net.kind = "error"
             /\ k.cached = None
             /\ ~installFailed )
           => ( /\ k.source = "offline"
                /\ k.result = InstalledResp
                /\ k.result.status # 503 )

\* C2: when an asset fetch fails during install, this version never reaches
\* activation: it deletes no store and claims no client.
C2_FailedInstallNeverActivates ==
    installFailed =>
        ( /\ swState \notin {"activating", "activated"}
          /\ deleted = {}
          /\ ~claimed )

\* C3: with retries = 3 and delay = 1000, against an upstream that answers
\* 429, 429, 429 and then 200, the call makes 4 attempts (3 retries) and
\* returns the response of the 4th.
C3_ThreeRetriesThenSuccess ==
    ( /\ fbRetries = 3
      /\ fbInitialDelay = 1000
      /\ SubSeq(fbUpstream, 1, 4) = << "429", "429", "429", "200" >>
      /\ fbPc \in {"returned", "thrown"} )
    => ( /\ fbAttempts = 4
         /\ fbResult = Returned(200, 4) )

\* C4: a same-origin request that is no API request, no image and none of
\* the manifest URLs is dispatched to networkFirstStrategy.
C4_OtherRequestsNetworkFirst ==
    \A c \in Calls :
        LET k == calls[c]
        IN ( /\ k.pc # "idle"
             /\ SameOrigin(k.req)
             /\ ~Includes(k.req.url, "/api/")
             /\ k.req.destination # "image"
             /\ k.req.url \notin ManifestURLs )
           => ( k.strategy = "networkFirst" /\ k.cacheName = RUNTIME_CACHE )

\* C5: every same-origin fetch event gets exactly one respondWith, with the
\* strategy of the first rule that matches in the order API, image, static
\* asset, other; a cross-origin one gets none and touches no store.
C5_DispatchExactlyOne ==
    \A c \in Calls :
        LET k == calls[c]
            api == Includes(k.req.url, "/api/")
            image == k.req.destination = "image"
            static == MatchesStaticAsset(k.req.url)
        IN k.pc # "idle" =>
           IF SameOrigin(k.req)
           THEN /\ k.responded = 1
                /\ api => Route(k.strategy, k.cacheName)
                             = Route("networkFirst", RUNTIME_CACHE)
                /\ (~api /\ image) => Route(k.strategy, k.cacheName)
                             = Route("cacheFirst", IMAGE_CACHE)
                /\ (~api /\ ~image /\ static) => Route(k.strategy, k.cacheName)
                             = Route("cacheFirst", CACHE_VERSION)
                /\ (~api /\ ~image /\ ~static) => Route(k.strategy, k.cacheName)
                             = Route("networkFirst", RUNTIME_CACHE)
           ELSE /\ k.responded = 0
                /\ k.strategy = "none"
                /\ k.pc = "passthrough"
                /\ k.storeOps = 0
                /\ k.wrote = 0
                /\ \A p \in puts : p.by # c

C5_Witness ==
    \E c, d \in Calls :
        /\ calls[c].pc = "passthrough" /\ ~SameOrigin(calls[c].req)
        /\ Finished(calls[d]) /\ SameOrigin(calls[d].req)
        /\ calls[d].responded = 1 /\ calls[d].storeOps > 0

\* C6: a same-origin image request whose path does not begin with /api/ is
\* served by cacheFirstStrategy on the image store.
C6_ImagesCacheFirst ==
    \A c \in Calls :
        LET k == calls[c]
        IN ( /\ k.pc # "idle"
             /\ SameOrigin(k.req)
             /\ k.req.destination = "image"
             /\ ~StartsWith(PathOf(k.req.url), "/api/") )
           => ( k.strategy = "cacheFirst" /\ k.cacheName = IMAGE_CACHE )

\* C7: once the background fetch of a hit exists, pending or settled in any
\* way, the call has already returned the cached entry.
C7_HitReturnsWithoutWaiting ==
    \A c \in Calls :
        LET k == calls[c]
        IN k.bg # "none" =>
           ( /\ Finished(k)
             /\ k.cached # None
             /\ k.source = "cache"
             /\ k.result = k.cached )

C7_Witness ==
    \E c \in Calls :
        /\ calls[c].bg = "pending"
        /\ Finished(calls[c])
        /\ calls[c].result = calls[c].cached
        /\ calls[c].result = InstalledResp

\* the last write to (name, url) among the first upto writes, 0 when none
LatestWrite(name, url, upto) ==
    LET idx == { i \in 1..upto :
                   writeLog[i].cacheName = name /\ writeLog[i].url = url }
    IN IF idx = {} THEN 0 ELSE CHOOSE i \in idx : \A j \in idx : j <= i

\* d looked (name, url) up with cacheFirstStrategy after the first w writes
LookedUpAfter(j, name, url, w) ==
    /\ j.strategy = "cacheFirst"
    /\ j.pc \in {"cf_fetch", "done"}
    /\ j.cacheName = name
    /\ j.req.url = url
    /\ j.matchAt >= w

\* C8: the write of a hit's successful background fetch replaces the entry
\* of U in the store the hit came from, and a cacheFirstStrategy call that
\* looks U up after that write returns the content written last, never the
\* entry that write replaced.
C8_RefreshThenNewContent ==
    \A c \in Calls :
        LET k == calls[c]
        IN k.bg = "written" =>
           /\ writeLog[k.wrote] = [cacheName |-> k.cacheName,
                                    url |-> k.req.url, resp |-> k.bgResp]
           /\ LatestWrite(k.cacheName, k.req.url, Len(writeLog)) = k.wrote
                => CacheMatch(caches, k.cacheName, k.req.url) = k.bgResp
           /\ \A d \in Calls :
                LET j == calls[d]
                IN LookedUpAfter(j, k.cacheName, k.req.url, k.wrote) =>
                   /\ Finished(j)
                   /\ j.source = "cache"
                   /\ j.result =
                        writeLog[LatestWrite(j.cacheName, j.req.url, j.matchAt)].resp
                   /\ LatestWrite(j.cacheName, j.req.url, j.matchAt) = k.wrote
                        => j.result = k.bgResp

C8_Witness ==
    \E c, d \in Calls :
        /\ calls[c].bg = "written"
        /\ LookedUpAfter(calls[d], calls[c].cacheName, calls[c].req.url,
                         calls[c].wrote)
        /\ calls[d].result = calls[c].bgResp
        /\ calls[d].result # calls[c].cached

\* a miss of cacheFirstStrategy that has returned
MissReturned(k) ==
    Finished(k) /\ k.strategy = "cacheFirst" /\ k.cached = None

\* the put call k issued is pending or written, under k's key in k's store
PutUnderOwnKey(c, k) ==
    \/ k.put = "pending" /\ PutOf(c, k, k.result) \in puts
    \/ k.put = "written" /\ writeLog[k.wrote] =
            [cacheName |-> k.cacheName, url |-> k.req.url, resp |-> k.result]

\* C9 as stated: on a miss, a response with a success status is stored
\* under the request's key and returned; a failed fetch gives a 503.
C9_MissStoresSuccessStatus ==
    \A c \in Calls :
        LET k == calls[c]
        IN MissReturned(k) =>
           /\ (k.net.kind = "resp" /\ IsOk(k.net.resp.status))
                => (k.result = k.net.resp /\ PutUnderOwnKey(c, k))
           /\ k.net.kind = "error"
                => (k.result = CFUnavailable /\ k.result.status = 503)

\* C9 amended: on a miss, a response with status 200 is stored under the
\* request's key in the target store and returned; a response with any
\* other status is returned and not stored; a failed fetch gives a
\* synthesized 503.
C9_MissStoresStatus200 ==
    \A c \in Calls :
        LET k == calls[c]
        IN MissReturned(k) =>
           /\ (k.net.kind = "resp" /\ k.net.resp.status = 200)
                => (k.result = k.net.resp /\ PutUnderOwnKey(c, k))
           /\ (k.net.kind = "resp" /\ k.net.resp.status # 200)
                => (k.result = k.net.resp /\ k.put = "none" /\ k.wrote = 0)
           /\ k.net.kind = "error"
                => ( /\ k.result = CFUnavailable /\ k.result.status = 503
                     /\ k.source = "synth" /\ k.put = "none" )

C9_Witness ==
    \E c, d \in Calls :
        /\ MissReturned(calls[c])
        /\ calls[c].net.kind = "resp" /\ calls[c].net.resp.status = 200
        /\ calls[c].put = "written"
        /\ CacheMatch(caches, calls[c].cacheName, calls[c].req.url)
             = calls[c].result
        /\ MissReturned(calls[d])
        /\ calls[d].net.kind = "error"
        /\ calls[d].result.status = 503

\* C10: whatever the network does, a strategy call never ends in an
\* exception: once its fetch has settled it has returned a response or is
\* on its way to the cache, and a failed background fetch leaves the call
\* returned with the cached entry.
C10_NoExceptionEscapes ==
    \A c \in Calls :
        LET k == calls[c]
        IN /\ k.source \in {"none", "network", "cache", "offline", "synth"}
           /\ k.pc \in {"idle", "passthrough", "cf_open", "cf_match",
                         "cf_fetch", "nf_open", "nf_fetch", "nf_match",
                         "nf_offline", "done"}
           /\ Finished(k) => (k.source # "none" /\ k.result # None)
           /\ k.net.kind = "resp" => (Finished(k) /\ k.result = k.net.resp)
           /\ k.net.kind = "error" =>
                \/ k.pc \in {"nf_match", "nf_offline"}
                \/ Finished(k) /\ k.source \in {"cache", "offline", "synth"}
           /\ k.bg \in {"failed", "skipped"} =>
                (Finished(k) /\ k.source = "cache" /\ k.result = k.cached)

C10_Witness ==
    \E c, d \in Calls :
        /\ calls[c].strategy = "cacheFirst" /\ Finished(calls[c])
        /\ calls[c].net.kind = "error" /\ calls[c].result = CFUnavailable
        /\ calls[d].strategy = "networkFirst" /\ Finished(calls[d])
        /\ calls[d].net.kind = "error" /\ calls[d].result = NFUnavailable

\* a networkFirstStrategy call that returned what the network answered
NFReturnedNetwork(k) ==
    Finished(k) /\ k.strategy = "networkFirst" /\ k.net.kind = "resp"

\* C11: when networkFirstStrategy returns a response of status 200 that
\* the network answered, the runtime store holds a copy of it under the
\* request's key.
C11_StoredThenReturned ==
    \A c \in Calls :
        LET k == calls[c]
        IN (NFReturnedNetwork(k) /\ k.net.resp.status = 200) =>
           /\ k.result = k.net.resp
           /\ CacheMatch(caches, RUNTIME_CACHE, k.req.url) = k.result

\* C12: when the fetch of networkFirstStrategy fails, the entry the runtime
\* store holds for the request is returned; when it holds none and the
\* request is no document request, the synthesized 503 is returned.
C12_FailureFallsBackToCache ==
    \A c \in Calls :
        LET k == calls[c]
            w == LatestWrite(RUNTIME_CACHE, k.req.url, k.matchAt)
        IN (Finished(k) /\ k.strategy = "networkFirst" /\ k.net.kind = "error") =>
           /\ w > 0 => ( /\ k.result = writeLog[w].resp
                         /\ k.source = "cache" )
           /\ (w = 0 /\ k.req.destination # "document")
                => ( /\ k.result = NFUnavailable
                     /\ k.result.status = 503
                     /\ k.source = "synth" )

C12_Witness ==
    \E c, d \in Calls :
        /\ NFReturnedNetwork(calls[c]) /\ calls[c].put = "written"
        /\ calls[d].strategy = "networkFirst" /\ Finished(calls[d])
        /\ calls[d].net.kind = "error"
        /\ calls[d].req = calls[c].req
        /\ calls[d].source = "cache"
        /\ calls[d].result = calls[c].result

\* C13: once activation has completed, every existing store has one of the
\* three recognized names, and activation deleted no store with such a name.
C13_ActivationEvictsOnlyStale ==
    swState = "activated" =>
        /\ DOMAIN caches \subseteq currentCaches
        /\ deleted \cap currentCaches = {}
        /\ \A n \in DOMAIN caches :
              n # CACHE_VERSION => caches[n] = PriorStore(n)

C13_Witness ==
    /\ swState = "activated"
    /\ deleted = OldCaches
    /\ DOMAIN caches = currentCaches
    /\ caches[RUNTIME_CACHE] = PriorStore(RUNTIME_CACHE)

\* C14: after one successful install, and after a second one over the
\* store the first left, the keys of the primary store are exactly the
\* manifest URLs, one entry each.
C14_InstallIdempotent ==
    (swState = "installed" /\ ~installFailed) =>
        /\ installs \in {1, 2}
        /\ CACHE_VERSION \in DOMAIN caches
        /\ DOMAIN caches[CACHE_VERSION] = ManifestURLs
        /\ Cardinality(DOMAIN caches[CACHE_VERSION]) = Len(STATIC_ASSETS)
        /\ \A u \in ManifestURLs : caches[CACHE_VERSION][u] = InstalledResp

C14_Witness ==
    /\ swState = "installed"
    /\ installs = 2
    /\ DOMAIN caches[CACHE_VERSION] = ManifestURLs
    /\ caches[CACHE_VERSION][Resolve("/offline.html")] = InstalledResp

\* C15 as stated: clients.claim() is invoked only once activation has
\* completed, every deletion finished and no stale store left.
C15_ClaimOnceActivated ==
    claimed =>
        /\ toDelete = {}
        /\ StaleCaches(DOMAIN caches) = {}
        /\ swState = "activated"

\* C15 amended: clients.claim() is invoked inside the activate step, while
\* the worker is still activating, and only when caches.keys() has
\* settled, every deletion the step started has finished and no stale
\* store is left; the worker becomes activated only after the claim.
C15_ClaimAfterDeletions ==
    /\ claimed =>
          /\ swState \in {"activating", "activated"}
          /\ pending \in {"", "claim"}
          /\ toDelete = {}
          /\ StaleCaches(DOMAIN caches) = {}
    /\ swState = "activated" => claimed
    /\ pending = "claim" => (claimed /\ swState = "activating")

C15_Witness ==
    /\ claimed
    /\ swState = "activating"
    /\ pending = "claim"
    /\ deleted = OldCaches
    /\ toDelete = {}

FBFinished == fbPc \in {"returned", "thrown"}

RECURSIVE Pow2(_)
Pow2(n) == IF n = 0 THEN 1 ELSE 2 * Pow2(n - 1)

\* the name of the error an attempt with outcome o throws
ErrorName(o) == IF o = "hang" THEN "AbortError" ELSE "TypeError"

\* C16: an attempt answered with a failure status other than 429 and 503
\* ends the call: that response is returned, no delay is waited after it
\* and no further attempt is made (none at all after a first-attempt 400).
C16_OtherStatusReturnedAtOnce ==
    (fbAttempts >= 1 /\ fbPc # "fetching" /\ fbUpstream[fbAttempts] = "400") =>
        /\ fbPc = "returned"
        /\ fbResult = Returned(400, fbAttempts)
        /\ Len(fbWaits) = fbAttempts - 1

C16_Witness ==
    /\ fbPc = "returned"
    /\ fbUpstream[1] = "400"
    /\ fbAttempts = 1
    /\ fbWaits = << >>
    /\ fbResult = Returned(400, 1)

\* C17: when every attempt fails transiently (429, 503 or timeout), the
\* call surfaces the failure of its last attempt: the last response
\* received, or the last error thrown.
C17_LastFailureSurfaced ==
    ( /\ FBFinished
      /\ \A i \in 1..fbAttempts : fbUpstream[i] \in {"429", "503", "hang"} )
    => /\ fbAttempts >= 1
       /\ fbResult =
            IF fbUpstream[fbAttempts] = "hang"
            THEN Thrown("AbortError", fbAttempts)
            ELSE Returned(StatusOf(fbUpstream[fbAttempts]), fbAttempts)

\* C18: the n-th delay waited in a call is initialDelay * 2^(n-1), whether
\* the attempts before it failed by status or by a thrown error.
C18_DelaysDouble ==
    /\ \A n \in 1..Len(fbWaits) : fbWaits[n] = fbInitialDelay * Pow2(n - 1)
    /\ fbPc \in {"loop", "fetching"} => fbDelay = fbInitialDelay * Pow2(fbI)

C18_Witness ==
    /\ fbInitialDelay = 1000
    /\ fbUpstream[1] = "429"
    /\ fbUpstream[2] = "hang"
    /\ fbUpstream[3] = "503"
    /\ fbWaits = << 1000, 2000, 4000 >>

\* C19: an attempt aborted by the timeout is handled as one that failed
\* with a network error: when attempts remain the same delay is waited and
\* the call goes on, and on the last attempt its error is thrown.
C19_TimeoutLikeNetworkError ==
    LET n == fbAttempts
    IN (n >= 1 /\ fbPc # "fetching" /\ fbUpstream[n] \in {"hang", "neterror"}) =>
       IF n < fbRetries
       THEN /\ fbPc \in {"waiting", "loop"}
            /\ fbResult = NoResult
            /\ Len(fbWaits) = n
            /\ fbWaits[n] = fbInitialDelay * Pow2(n - 1)
       ELSE /\ fbPc = "thrown"
            /\ fbResult = Thrown(ErrorName(fbUpstream[n]), n)
            /\ Len(fbWaits) = n - 1

C19_Witness ==
    /\ fbAttempts >= 2
    /\ fbAttempts = fbRetries
    /\ fbUpstream[1] = "hang"
    /\ fbUpstream[fbAttempts] = "hang"
    /\ fbPc = "thrown"
    /\ fbResult = Thrown("AbortError", fbAttempts)
    /\ Len(fbWaits) = fbAttempts - 1

\* C20: a call never makes more than retries + 1 attempts, and when every
\* attempt settles or times out it ends by returning or throwing.
C20_Terminates ==
    /\ [](fbAttempts <= fbRetries + 1)
    /\ <>FBFinished

C20_Witness ==
    /\ FBFinished
    /\ fbRetries = 3
    /\ fbAttempts = fbRetries

\* C24: only a response of status 200 is ever put: every put issued and
\* every put written carries status 200; and a served hit whose background
\* refresh failed or answered another status has issued no put, written
\* nothing, and keeps the cached response it was served.
C24_OnlyStatus200Written ==
    /\ \A p \in puts : p.resp.status = 200
    /\ \A i \in 1..Len(writeLog) : writeLog[i].resp.status = 200
    /\ \A c \in Calls :
          LET k == calls[c]
          IN (k.strategy = "cacheFirst" /\ k.bg \in {"failed", "skipped"}) =>
                /\ k.source = "cache"
                /\ k.result = k.cached
                /\ k.put = "none"
                /\ k.wrote = 0
                /\ \A p \in puts : p.by # c
                /\ k.bg = "skipped" => k.bgResp.status # 200

C24_Witness ==
    \E c, d \in Calls :
        /\ calls[c].strategy = "cacheFirst"
        /\ calls[c].bg = "skipped"
        /\ calls[c].bgResp.status = 204
        /\ calls[c].result = calls[c].cached
        /\ calls[d].strategy = "cacheFirst"
        /\ calls[d].bg = "failed"
        /\ CacheMatch(caches, calls[c].cacheName, calls[c].req.url)
             = calls[c].cached

\* C28: a delay is waited only before an attempt that is then made: when
\* the call has ended, by a return or by a throw, the delays waited are one
\* fewer than the attempts made.
C28_NoWaitAfterLastAttempt ==
    FBFinished => Len(fbWaits) = fbAttempts - 1

\* the replay POST was answered with an ok response
PostOk(p) == p.net.kind = "resp" /\ ResponseOk(p.net.resp)

\* the positions in syPosts of the POSTs run k sent for submission id
PostsOf(k, id) ==
    { j \in 1..Len(syPosts) : syPosts[j].run = k /\ syPosts[j].id = id }

\* C21: a write request that could not reach the network has left a
\* pending submission in the store: once the request is answered, the store
\* holds a record it did not start with (or a sync has since replayed one).
C21_FailedWriteIsQueued ==
    \A c \in Calls :
        ( /\ calls[c].req = SendRequest
          /\ calls[c].pc = "done"
          /\ calls[c].net.kind = "error" )
        => \/ \E id \in DOMAIN syStore : id \notin SubIds
           \/ \E j \in 1..Len(syPosts) : syPosts[j].id \notin SubIds

\* C22: a record a run has read is gone from the store only if a POST for
\* it was answered ok, and a run removes only what its own POST delivered;
\* when a run ends it has sent a POST for every record it read, and each
\* record whose POST threw or was answered non-ok is then still stored.
C22_RemovedOnlyAfterOk ==
    \A k \in Syncs :
        LET r == syRuns[k]
        IN /\ \A id \in r.removed : \E j \in PostsOf(k, id) : PostOk(syPosts[j])
           /\ \A n \in 1..Len(r.submissions) :
                 LET id == r.submissions[n].id
                 IN /\ id \notin DOMAIN syStore =>
                          \E j \in 1..Len(syPosts) :
                              syPosts[j].id = id /\ PostOk(syPosts[j])
                    /\ r.pc = "done" =>
                          /\ PostsOf(k, id) # {}
                          /\ (\A j \in PostsOf(k, id) : ~PostOk(syPosts[j]))
                                => id \in r.endStore

C22_Witness ==
    \E k \in Syncs :
        /\ syRuns[k].pc = "done"
        /\ Len(syRuns[k].submissions) = 2
        /\ \E j \in PostsOf(k, 1) : syPosts[j].net.kind = "error"
        /\ \E j \in PostsOf(k, 2) : PostOk(syPosts[j])
        /\ syRuns[k].removed = {2}
        /\ DOMAIN syStore = {1}

\* C30: once a POST for a submission was answered ok, no later POST for
\* the same submission is sent, by that sync or by any other.
C30_DeliveredAtMostOnce ==
    \A i, j \in 1..Len(syPosts) :
        (i < j /\ syPosts[i].id = syPosts[j].id) => ~PostOk(syPosts[i])

\* the fixed texts a failure response may carry
SafeMessages ==
    { SendMessage, SendMessageLong, ChatMessage, ChatMessageLong }
        \cup MiddlewareDefaults
        \cup { r.message : r \in SendRefusals \cup ChatRefusals }

\* C23: outside development every failure response sent carries one of the
\* fixed user-safe texts and not the text of the error that was caught.
C23_NoInternalErrorText ==
    (erEnv # "development" /\ erHandler \in {"send", "chat", "middleware"}) =>
        /\ erResponse.message \in SafeMessages
        /\ erError.message # "" => ~Includes(erResponse.message, erError.message)

LoadRunning(r) == r.pc \in {"fetching", "parsing", "waiting"}

\* C25: a run of loadPortfolioData that has ended has called
\* setupDynamicAnimations, whether it rendered the data or the fallback.
C25_AnimationsAlwaysSetUp ==
    \A l \in Loads : pfLoads[l].pc = "done" => pfLoads[l].animations = 1

\* C26: a run makes at most MAX_RETRIES fetches and its n-th wait is
\* 1000 * 2^(n-1) milliseconds: 1 s, then 2 s, then 4 s.
C26_BackoffFromOneSecond ==
    \A l \in Loads :
        /\ pfLoads[l].fetches <= MAX_RETRIES
        /\ \A n \in 1..Len(pfLoads[l].waits) :
              pfLoads[l].waits[n] = 1000 * Pow2(n - 1)

\* C29: at most one run of loadPortfolioData is fetching or waiting to
\* retry at any time.
C29_OneLoadAtATime ==
    Cardinality({ l \in Loads : LoadRunning(pfLoads[l]) }) <= 1

\* C27: a call makes at most retries + 1 fetches; it never gives up while
\* retries are left, so a rejected call has made all retries + 1 fetches,
\* each of them failed, and it rejects with the error of the last one; a
\* resolved call ends on an attempt the server answered ok.
C27_RetriesThenLastError ==
    /\ frAttempts <= frArg + 1
    /\ frPc = "rejected" =>
          /\ frAttempts = frArg + 1
          /\ \A n \in 1..frAttempts : frServer[n] # "ok"
          /\ frResult = Thrown(RetryErrorOf(frServer[frAttempts]), frAttempts)
    /\ frPc = "resolved" =>
          /\ frServer[frAttempts] = "ok"
          /\ \A n \in 1..(frAttempts - 1) : frServer[n] # "ok"
    /\ frPc = "waiting" => frAttempts <= frArg

C27_Witness ==
    /\ frArg = 3
    /\ frPc = "rejected"
    /\ frServer[1] = "http500"
    /\ frServer[2] = "neterror"
    /\ frServer[3] = "badjson"
    /\ frServer[4] = "http404"
    /\ frAttempts = 4
    /\ frLog = << 1, 2, 3 >>
    /\ frResult = Thrown("HTTP 404: Not Found", 4)
====
